---- MODULE Spec2Model ----
\* A model of the FAISS search engine of main_faiss_engine:
\*   src/tools/faiss_engine_tool.py   FaissSearchEngine
\*   src/db/db_manager.py             DBManager (SQLite store "database.db")
\*   src/ingestion/pdf_reader.py      PDFReader.load_from_folder
\*
\* Text is modelled structurally: a document text is a sequence of lines, a
\* line is a sequence of words, a word is a sequence of characters.  Vectors
\* are pairs of integers in units of 1/Scale, scores (inner products of two
\* such vectors) are integers in units of 1/(Scale*Scale).
EXTENDS Integers, Sequences, FiniteSets, TLC

VARIABLES
    index,        \* FaissSearchEngine.index: NoIndex or a flat inner-product index
    chunks_list,  \* FaissSearchEngine.chunks_list
    faiss_index,  \* table faiss_index of database.db, rows in id order
    pdf_files,    \* table pdf_files of database.db, a set of rows
    folder,       \* the PDF folder on disk
    main,         \* a run of main(): where it is, Agent().engine, pdf_data
    out           \* what the last call was, received and returned

vars == <<index, chunks_list, faiss_index, pdf_files, folder, main, out>>

-----------------------------------------------------------------------------
\* Bounds of the model.

MaxChunks == 4      \* update_index is not called when it would exceed this
MaxTopK == 3        \* search is called with top_k in 1..MaxTopK
MaxTime == 2        \* modification timestamps are 1..MaxTime

\* Program constants.

WindowSize == 50    \* _process_texts(window_size=50)
Stride == 40        \* _process_texts(stride=40)
DefaultMinSimilarity == 20  \* search(min_similarity=0.8), in units of 1/25
AgentMinSimilarity == 10    \* Agent.process_query: min_similarity=0.4
AgentTopK == 3              \* Agent.process_query: top_k=3
NegFltMax == -1000000       \* the score faiss pads a short result with (-FLT_MAX)
Scale == 5                  \* a unit vector has norm Scale

-----------------------------------------------------------------------------
\* Generic sequence helpers.

Min(a, b) == IF a < b THEN a ELSE b

Range(s) == {s[i] : i \in 1..Len(s)}

RECURSIVE Rep(_, _)
Rep(n, x) == IF n = 0 THEN <<>> ELSE <<x>> \o Rep(n - 1, x)

RECURSIVE Flatten(_)
Flatten(ss) == IF ss = <<>> THEN <<>> ELSE Head(ss) \o Flatten(Tail(ss))

\* Python list[idx]: a negative idx counts from the end.
PyItem(list, idx) == IF idx < 0 THEN list[Len(list) + idx + 1] ELSE list[idx + 1]

-----------------------------------------------------------------------------
\* The tokenizer (WordPiece over single characters): the first character of a
\* word is a word-start token, every further character a "##" continuation.

Tok(ch, cont) == [ch |-> ch, cont |-> cont]

tokenize_word(w) == [i \in 1..Len(w) |-> Tok(w[i], i > 1)]

RECURSIVE tokenize(_)
tokenize(line) ==
    IF line = <<>> THEN <<>>
    ELSE tokenize_word(Head(line)) \o tokenize(Tail(line))

\* " ".join(tokens).replace(" ##", "").strip(): a continuation token is glued
\* to the word before it; at the start of a window it stays a word of its own.
RECURSIVE convert_tokens_to_string(_)
convert_tokens_to_string(tokens) ==
    IF tokens = <<>> THEN <<>>
    ELSE LET n == Len(tokens)
             front == convert_tokens_to_string(SubSeq(tokens, 1, n - 1))
             t == tokens[n]
         IN  IF t.cont /\ front # <<>>
             THEN [front EXCEPT ![Len(front)] = @ \o <<t.ch>>]
             ELSE front \o << <<t.ch>> >>

\* text.strip() of one line is truthy iff the line holds a word.
IsBlank(line) == line = <<>>

\* The window loop over range(0, len(tokens) - window_size, stride).
RECURSIVE WindowsExclusive(_, _, _, _)
WindowsExclusive(tokens, i, window_size, stride) ==
    IF i >= Len(tokens) - window_size THEN <<>>
    ELSE <<convert_tokens_to_string(SubSeq(tokens, i + 1, i + window_size))>>
         \o WindowsExclusive(tokens, i + stride, window_size, stride)

\* FaissSearchEngine._sliding_window_tokenization
RECURSIVE Windows(_, _, _, _)
Windows(tokens, i, window_size, stride) ==
    IF i >= Len(tokens) - window_size + 1 THEN <<>>
    ELSE <<convert_tokens_to_string(SubSeq(tokens, i + 1, i + window_size))>>
         \o Windows(tokens, i + stride, window_size, stride)

sliding_window_tokenization(line, window_size, stride) ==
    LET tokens == tokenize(line)
    IN  IF Len(tokens) < window_size
        THEN <<convert_tokens_to_string(tokens)>>
        ELSE Windows(tokens, 0, window_size, stride)

-----------------------------------------------------------------------------
\* The embedding provider (SentenceTransformer.encode): a fixed function from
\* text to a vector of dimension Dim, not normalized in general.

encode(s) ==
    IF s = <<>> THEN <<5, 0>>
    ELSE IF Len(s) > 1 THEN <<6, 8>>
    ELSE IF s[1] = <<"a">> THEN <<30, 40>>
    ELSE IF s[1] = <<"b">> THEN <<4, 3>>
    ELSE <<-3, 4>>

\* The dimension of the vectors the provider returns.
Dim == Len(encode(<<>>))

Dot(u, v) == u[1] * v[1] + u[2] * v[2]

\* np.linalg.norm of one row (the integer square root; exact on the vectors
\* encode returns).
Norm(v) == CHOOSE r \in 0..(Dot(v, v) + 1) : r * r <= Dot(v, v) /\ (r + 1) * (r + 1) > Dot(v, v)

\* v / np.linalg.norm(v)
Normalize(v) == [i \in 1..Len(v) |-> (v[i] * Scale) \div Norm(v)]

-----------------------------------------------------------------------------
\* The vector index (faiss.IndexFlatIP).

NoIndex == [present |-> FALSE, d |-> 0, xb |-> <<>>]

IndexFlatIP(dimension) == [present |-> TRUE, d |-> dimension, xb |-> <<>>]

\* index.add(vectors)
IndexAdd(ix, vectors) == [ix EXCEPT !.xb = @ \o vectors]

ntotal(ix) == Len(ix.xb)

\* FaissSearchEngine._process_texts: the chunks of the non-blank lines and
\* their embeddings (no embedding call when there is no chunk).
RECURSIVE ChunksOf(_, _, _)
ChunksOf(texts, window_size, stride) ==
    IF texts = <<>> THEN <<>>
    ELSE (IF IsBlank(Head(texts)) THEN <<>>
          ELSE sliding_window_tokenization(Head(texts), window_size, stride))
         \o ChunksOf(Tail(texts), window_size, stride)

process_texts(texts) ==
    LET chunks == ChunksOf(texts, WindowSize, Stride)
    IN  [chunks |-> chunks,
         vectors |-> [i \in 1..Len(chunks) |-> encode(chunks[i])]]

-----------------------------------------------------------------------------
\* Serialization.  faiss.serialize_index writes the dimension, the vector
\* count and the flat array of coordinates; pickle.dumps writes a list as
\* EMPTY_LIST, then one (UNICODE text, APPEND) pair per item, then STOP.

serialize_index(ix) == <<ix.d, Len(ix.xb)>> \o Flatten(ix.xb)

deserialize_index(data) ==
    LET d == data[1]
        n == data[2]
    IN  [present |-> TRUE, d |-> d,
         xb |-> [r \in 1..n |-> [c \in 1..d |-> data[2 + (r - 1) * d + c]]]]

Op(name, arg) == [op |-> name, arg |-> arg]

RECURSIVE PickleItems(_)
PickleItems(list) ==
    IF list = <<>> THEN <<>>
    ELSE <<Op("UNICODE", Head(list)), Op("APPEND", <<>>)>> \o PickleItems(Tail(list))

pickle_dumps(list) == <<Op("EMPTY_LIST", <<>>)>> \o PickleItems(list) \o <<Op("STOP", <<>>)>>

\* The unpickler: a stack machine holding the list under construction and
\* the last value pushed.
RECURSIVE Unpickle(_, _, _, _)
Unpickle(data, i, list, top) ==
    IF i > Len(data) \/ data[i].op = "STOP" THEN list
    ELSE IF data[i].op = "EMPTY_LIST" THEN Unpickle(data, i + 1, <<>>, top)
    ELSE IF data[i].op = "UNICODE" THEN Unpickle(data, i + 1, list, data[i].arg)
    ELSE Unpickle(data, i + 1, Append(list, top), top)

pickle_loads(data) == Unpickle(data, 1, <<>>, <<>>)

-----------------------------------------------------------------------------
\* DBManager: the snapshot table.

\* save_index inserting only into an empty table (no DELETE before it).
SaveIndexKeepsOld(table, ix, chunks) ==
    IF ~ix.present \/ table # <<>> THEN table
    ELSE <<[index_data |-> serialize_index(ix), chunks_list |-> pickle_dumps(chunks)]>>

\* save_index inserting its row without the DELETE before it.
SaveIndexAppends(table, ix, chunks) ==
    IF ~ix.present THEN table
    ELSE Append(table, [index_data |-> serialize_index(ix), chunks_list |-> pickle_dumps(chunks)])

\* DBManager.save_index: the table after the call.
save_index(table, ix, chunks) ==
    IF ~ix.present THEN table
    ELSE <<[index_data |-> serialize_index(ix), chunks_list |-> pickle_dumps(chunks)]>>

\* load_index answering an empty table with a new, empty index instead of None.
LoadIndexNewWhenEmpty(table) ==
    IF table # <<>> /\ table[Len(table)].index_data # <<>>
    THEN LET row == table[Len(table)]
         IN  [index |-> deserialize_index(row.index_data),
              chunks_list |-> IF row.chunks_list # <<>>
                              THEN pickle_loads(row.chunks_list) ELSE <<>>]
    ELSE [index |-> IndexFlatIP(Dim), chunks_list |-> <<>>]

\* DBManager.load_index: SELECT ... ORDER BY id DESC LIMIT 1.
load_index(table) ==
    IF table # <<>> /\ table[Len(table)].index_data # <<>>
    THEN LET row == table[Len(table)]
         IN  [index |-> deserialize_index(row.index_data),
              chunks_list |-> IF row.chunks_list # <<>>
                              THEN pickle_loads(row.chunks_list) ELSE <<>>]
    ELSE [index |-> NoIndex, chunks_list |-> <<>>]

-----------------------------------------------------------------------------
\* FaissSearchEngine.update_index.  An engine is [index, chunks_list], the
\* store's snapshot table is carried along, raised tells that the call ended
\* with an exception and encoded that it called the embedding provider.

Engine(ix, chunks, table) ==
    [index |-> ix, chunks_list |-> chunks, table |-> table,
     raised |-> FALSE, encoded |-> FALSE]

\* FaissSearchEngine._initialize_index: normalizes the rows, builds the index
\* and saves it with the chunk list the engine holds at that moment.  On an
\* empty array np.linalg.norm(axis=1) raises.
initialize_index(st, text_vectors) ==
    IF text_vectors = <<>> THEN [st EXCEPT !.raised = TRUE]
    ELSE LET normalized == [i \in 1..Len(text_vectors) |-> Normalize(text_vectors[i])]
             dimension == Len(text_vectors[1])
             ix == IndexAdd(IndexFlatIP(dimension), normalized)
         IN  [st EXCEPT !.index = ix,
                        !.table = save_index(st.table, ix, st.chunks_list)]

\* unique_chunks built through a set, which loses the order of the document:
\* here the new chunks come out in reverse.
UniqueChunksReordered(new_chunks, chunks) ==
    LET kept == SelectSeq(new_chunks, LAMBDA c : c \notin Range(chunks))
    IN  [i \in 1..Len(kept) |-> kept[Len(kept) + 1 - i]]

\* unique_chunks without its filter: every new chunk is appended.
UniqueChunksUnfiltered(new_chunks, chunks) == new_chunks

\* unique_chunks: the new chunks that are not in the chunk list as it is
\* before any chunk of this document is appended.
UniqueChunks(new_chunks, chunks) ==
    SelectSeq(new_chunks, LAMBDA c : c \notin Range(chunks))

\* unique_vectors without its filter: every new vector is inserted.
UniqueVectorsUnfiltered(new_chunks, new_vectors, chunks) == new_vectors

\* unique_vectors: the vectors at the positions of those chunks.
RECURSIVE UniqueVectors(_, _, _)
UniqueVectors(new_chunks, new_vectors, chunks) ==
    IF new_chunks = <<>> \/ new_vectors = <<>> THEN <<>>
    ELSE (IF Head(new_chunks) \notin Range(chunks) THEN <<Head(new_vectors)>> ELSE <<>>)
         \o UniqueVectors(Tail(new_chunks), Tail(new_vectors), chunks)

\* One iteration of the loop over pdf_texts.items().  encode_fails tells that
\* the embedding provider raises when it is called in this iteration;
\* index.add raises on vectors whose dimension is not the index's, after
\* chunks_list has been extended.
UpdateOne(st, pdf_text, encode_fails) ==
    LET texts == pdf_text
        p == process_texts(texts)
        called == [st EXCEPT !.encoded = @ \/ p.chunks # <<>>]
    IN  IF encode_fails /\ p.chunks # <<>>
        THEN [called EXCEPT !.raised = TRUE]
        ELSE IF ~st.index.present
        THEN LET init == initialize_index(called, p.vectors)
             IN  IF init.raised THEN init
                 ELSE [init EXCEPT !.chunks_list = p.chunks]
        ELSE LET unique_chunks == UniqueChunks(p.chunks, st.chunks_list)
                 unique_vectors == UniqueVectors(p.chunks, p.vectors, st.chunks_list)
                 extended == [called EXCEPT !.chunks_list = @ \o unique_chunks]
             IN  IF unique_vectors = <<>> THEN extended
                 ELSE IF Len(unique_vectors[1]) # st.index.d
                 THEN [extended EXCEPT !.raised = TRUE]
                 ELSE [extended EXCEPT !.index = IndexAdd(@, unique_vectors)]

\* The loop; fail_at is the position of the document at which the embedding
\* provider raises (0: it never does).
RECURSIVE UpdateLoop(_, _, _)
UpdateLoop(st, docs, fail_at) ==
    IF docs = <<>> \/ st.raised THEN st
    ELSE UpdateLoop(UpdateOne(st, Head(docs).text, fail_at = 1), Tail(docs), fail_at - 1)

\* update_index returning after its loop, without the final save.
UpdateIndexNoFinalSave(st, pdf_texts, fail_at) ==
    IF pdf_texts = <<>> THEN st
    ELSE UpdateLoop(st, pdf_texts, fail_at)

\* The whole call: nothing on an empty mapping, else the loop and, when no
\* iteration raised, the final save.
update_index(st, pdf_texts, fail_at) ==
    IF pdf_texts = <<>> THEN st
    ELSE LET done == UpdateLoop(st, pdf_texts, fail_at)
         IN  IF done.raised THEN done
             ELSE [done EXCEPT !.table = save_index(@, done.index, done.chunks_list)]

-----------------------------------------------------------------------------
\* FaissSearchEngine.search.

Scores(ix, q) == [r \in 1..Len(ix.xb) |-> Dot(ix.xb[r], q)]

\* index.search(query_vector, top_k): the top_k rows by inner product, best
\* first, as 0-based row ids; rows of equal score come in any order.  A
\* result shorter than top_k is padded with id -1 and score NegFltMax.
TopRows(sc, top_k) ==
    LET n == Len(sc)
        m == Min(top_k, n)
        picks == {ord \in [1..m -> 1..n] :
                    /\ \A i, j \in 1..m : i < j => ord[i] # ord[j] /\ sc[ord[i]] >= sc[ord[j]]
                    /\ \A r \in 1..n : (\A i \in 1..m : ord[i] # r)
                                        => \A i \in 1..m : sc[ord[i]] >= sc[r]}
    IN  {[ids |-> [i \in 1..m |-> ord[i] - 1] \o Rep(top_k - m, -1),
          sims |-> [i \in 1..m |-> sc[ord[i]]] \o Rep(top_k - m, NegFltMax)] : ord \in picks}

IndexSearch(ix, q, top_k) == UNION {TopRows(sc, top_k) : sc \in {Scores(ix, q)}}

\* The condition of the result loop.
Keeps(idx, sim, chunks, min_similarity) ==
    idx < Len(chunks) /\ sim >= min_similarity

\* The result loop inserting at the front of results instead of appending.
RECURSIVE ResultLoopReversed(_, _, _, _, _)
ResultLoopReversed(ids, sims, chunks, min_similarity, i) ==
    IF i > Len(ids) THEN <<>>
    ELSE ResultLoopReversed(ids, sims, chunks, min_similarity, i + 1)
         \o (IF Keeps(ids[i], sims[i], chunks, min_similarity) THEN <<i>> ELSE <<>>)

\* The result loop: the positions i of the index's result that are kept, in
\* the order of the loop.
RECURSIVE ResultLoop(_, _, _, _, _)
ResultLoop(ids, sims, chunks, min_similarity, i) ==
    IF i > Len(ids) THEN <<>>
    ELSE (IF Keeps(ids[i], sims[i], chunks, min_similarity) THEN <<i>> ELSE <<>>)
         \o ResultLoop(ids, sims, chunks, min_similarity, i + 1)

\* What search returns for one answer of the index; chunks_list[idx] raises
\* IndexError when idx is out of Python's range.
SearchResult(chunks, found, min_similarity) ==
    LET kept == ResultLoop(found.ids, found.sims, chunks, min_similarity, 1)
        raised == \E j \in 1..Len(kept) :
                      \/ found.ids[kept[j]] < -Len(chunks)
                      \/ found.ids[kept[j]] >= Len(chunks)
    IN  [kept |-> kept,
         raised |-> raised,
         ret |-> IF raised THEN <<>>
                 ELSE [j \in 1..Len(kept) |-> PyItem(chunks, found.ids[kept[j]])]]

\* The guard of search testing the index alone.
SearchFailsSoftIndexOnly(ix, chunks) == ~ix.present

\* The guard of search: no index, or no chunk.
SearchFailsSoft(ix, chunks) == ~ix.present \/ chunks = <<>>

-----------------------------------------------------------------------------
\* DBManager: the tracking table pdf_files (filename is UNIQUE).

Tracked(rows, filename) == \E r \in rows : r.filename = filename

RowOf(rows, filename) == CHOOSE r \in rows : r.filename = filename

\* DBManager.get_tracked_pdfs: filename -> last_modified.
get_tracked_pdfs(rows) ==
    [f \in {r.filename : r \in rows} |-> RowOf(rows, f).last_modified]

\* The two early returns of save_pdf_content.
SaveSkipped(rows, filename, content, last_modified) ==
    /\ Tracked(rows, filename)
    /\ \/ RowOf(rows, filename).last_modified >= last_modified
       \/ RowOf(rows, filename).content = content

\* DBManager.save_pdf_content: the table after the call (INSERT OR REPLACE
\* drops the row of the same filename).
save_pdf_content(rows, filename, content, last_modified) ==
    IF SaveSkipped(rows, filename, content, last_modified) THEN rows
    ELSE {r \in rows : r.filename # filename}
         \cup {[filename |-> filename, content |-> content, last_modified |-> last_modified]}

-----------------------------------------------------------------------------
\* The folder and PDFReader.

Filenames == {"f1.pdf", "f2.pdf"}

NoFile == [present |-> FALSE, text |-> <<>>, mtime |-> 0]

\* str.strip() of a whole text: leading and trailing blank lines go.
RECURSIVE StripLeft(_)
StripLeft(text) ==
    IF text # <<>> /\ IsBlank(Head(text)) THEN StripLeft(Tail(text)) ELSE text

RECURSIVE StripRight(_)
StripRight(text) ==
    IF text # <<>> /\ IsBlank(text[Len(text)])
    THEN StripRight(SubSeq(text, 1, Len(text) - 1)) ELSE text

\* PDFReader.read_text
read_text(file) == StripRight(StripLeft(file.text))

\* PDFReader.load_from_folder: the files that yield text, as a function
\* filename -> text (the order of the dict is the order of os.listdir).
load_from_folder(dir) ==
    IF ~dir.exists THEN <<>>
    ELSE LET readable == {f \in Filenames :
                            dir.files[f].present /\ read_text(dir.files[f]) # <<>>}
         IN  [f \in readable |-> read_text(dir.files[f])]

\* The condition of load_data's loop with <= in place of <.
IsUpdatedOrSame(tracked_pdfs, filename, last_modified) ==
    filename \notin DOMAIN tracked_pdfs \/ tracked_pdfs[filename] <= last_modified

\* The condition of load_data's loop: new, or modified after the record.
IsUpdated(tracked_pdfs, filename, last_modified) ==
    filename \notin DOMAIN tracked_pdfs \/ tracked_pdfs[filename] < last_modified

Doc(filename, text) == [filename |-> filename, text |-> text]

\* The loop of load_data over pdf_texts in the order `order`: the mapping
\* built so far and the tracking table.
RECURSIVE LoadLoop(_, _, _, _, _)
LoadLoop(dir, pdf_texts, tracked_pdfs, order, acc) ==
    IF order = <<>> THEN acc
    ELSE LET filename == Head(order)
             pdf_text == pdf_texts[filename]
             last_modified == dir.files[filename].mtime
             next == IF IsUpdated(tracked_pdfs, filename, last_modified)
                     THEN [updated_files |-> Append(acc.updated_files, Doc(filename, pdf_text)),
                           rows |-> save_pdf_content(acc.rows, filename, pdf_text, last_modified)]
                     ELSE acc
         IN  LoadLoop(dir, pdf_texts, tracked_pdfs, Tail(order), next)

\* The orders in which a dict over the set S can be iterated.
Orders(S) == {o \in [1..Cardinality(S) -> S] : \A i, j \in 1..Cardinality(S) : i # j => o[i] # o[j]}

\* FaissSearchEngine.load_data for one listing order of the folder.
load_data(dir, rows, order) ==
    LET tracked_pdfs == get_tracked_pdfs(rows)
        pdf_texts == load_from_folder(dir)
    IN  IF ~dir.exists \/ DOMAIN pdf_texts = {}
        THEN [updated_files |-> <<>>, rows |-> rows]
        ELSE LoadLoop(dir, pdf_texts, tracked_pdfs, order,
                      [updated_files |-> <<>>, rows |-> rows])

-----------------------------------------------------------------------------
\* The inputs the calls are made with.

Wa == <<"a">>
Wb == <<"b">>
Wab == <<"a", "b">>

La == <<Wa>>                              \* the line "a"
Lb == <<Wb>>                              \* the line "b"
Lab == <<Wab>>                            \* the line "ab": tokens a, ##b
Blank == <<>>                             \* a line of white space
Llong == Rep(WindowSize + Stride, Wa)     \* a line of two full windows

\* Document texts given to update_index.
DocTexts == {<<La>>, <<La, La>>, <<Lb, Lab>>, <<Blank>>, <<Llong>>}

\* The mappings update_index is called with (it never reads the filenames).
Mappings ==
    {<<>>} \cup {<<Doc("f1.pdf", t)>> : t \in DocTexts}
           \cup {<<Doc("f1.pdf", t1), Doc("f2.pdf", t2)>> : t1, t2 \in DocTexts}

\* Query texts, top_k values and thresholds search is called with.
Queries == {La, Lb}
MinSimilarities == {NegFltMax, AgentMinSimilarity, DefaultMinSimilarity}

\* Texts of the files written to the folder, and contents and timestamps
\* save_pdf_content is called with directly.
FileTexts == {<<La>>, <<Blank, Lb>>, <<Blank>>}
Contents == {<<La>>, <<Lb>>}
Times == 1..MaxTime

-----------------------------------------------------------------------------
\* What a call leaves in out.  prev is the call made before it, and again
\* tells that it repeats that call with the same argument.

Out(op, arg, raised, ret, found, kept, top_k, min_similarity, encoded) ==
    [op |-> op, arg |-> arg, raised |-> raised, ret |-> ret,
     ids |-> found.ids, sims |-> found.sims, kept |-> kept,
     top_k |-> top_k, min_similarity |-> min_similarity, encoded |-> encoded,
     prev |-> out.op, again |-> (out.op = op /\ out.arg = arg)]

NotFound == [ids |-> <<>>, sims |-> <<>>]

Plain(op, arg, raised, ret, encoded) ==
    Out(op, arg, raised, ret, NotFound, <<>>, 0, 0, encoded)

-----------------------------------------------------------------------------
\* The state after FaissSearchEngine() on an empty database, with no folder
\* and no run of main.

\* No process runs main: pc is where main is, agent is the state of
\* Agent().engine (index and chunks_list), pdf_data what load_data returned.
NoMain ==
    [pc |-> "none", agent |-> [index |-> NoIndex, chunks_list |-> <<>>],
     pdf_data |-> <<>>, updated |-> FALSE]


Init ==
    /\ index = NoIndex
    /\ chunks_list = <<>>
    /\ faiss_index = <<>>
    /\ pdf_files = {}
    /\ folder = [exists |-> FALSE, files |-> [f \in Filenames |-> NoFile]]
    /\ main = NoMain
    /\ out = [op |-> "init", arg |-> <<>>, raised |-> FALSE, ret |-> <<>>,
              ids |-> <<>>, sims |-> <<>>, kept |-> <<>>,
              top_k |-> 0, min_similarity |-> 0, encoded |-> FALSE,
              prev |-> "none", again |-> FALSE]

\* FaissSearchEngine.__init__ of a new process: _load_index_from_db.
NewEngine ==
    /\ index' = load_index(faiss_index).index
    /\ chunks_list' = load_index(faiss_index).chunks_list
    /\ out' = Plain("init", <<>>, FALSE, <<>>, FALSE)
    /\ UNCHANGED <<faiss_index, pdf_files, folder, main>>

\* engine.update_index(pdf_texts), the embedding provider answering every call
UpdateIndex ==
    \E pdf_texts \in Mappings :
        \E st \in {update_index(Engine(index, chunks_list, faiss_index), pdf_texts, 0)} :
            /\ Len(st.chunks_list) <= MaxChunks
            /\ index' = st.index
            /\ chunks_list' = st.chunks_list
            /\ faiss_index' = st.table
            /\ out' = Plain("update_index", pdf_texts, st.raised, <<>>, st.encoded)
            /\ UNCHANGED <<pdf_files, folder, main>>

\* engine.search(query, top_k, min_similarity)
Search ==
    \E query \in Queries, top_k \in 1..MaxTopK :
        /\ IF SearchFailsSoft(index, chunks_list)
           THEN \E min_similarity \in MinSimilarities :
                    out' = Out("search", query, FALSE, <<>>, NotFound, <<>>,
                               top_k, min_similarity, FALSE)
           ELSE \E found \in IndexSearch(index, Normalize(encode(query)), top_k) :
                    \E min_similarity \in MinSimilarities :
                        \E res \in {SearchResult(chunks_list, found, min_similarity)} :
                            out' = Out("search", query, res.raised, res.ret, found, res.kept,
                                       top_k, min_similarity, TRUE)
        /\ UNCHANGED <<index, chunks_list, faiss_index, pdf_files, folder, main>>

Next == UpdateIndex \/ Search \/ NewEngine

Spec == Init /\ [][Next]_vars

-----------------------------------------------------------------------------
\* The tracking store and the folder.

\* The folder is created (main: PDF_FOLDER.mkdir).
MakeFolder ==
    /\ ~folder.exists
    /\ folder' = [folder EXCEPT !.exists = TRUE]
    /\ out' = Plain("mkdir", <<>>, FALSE, <<>>, FALSE)
    /\ UNCHANGED <<index, chunks_list, faiss_index, pdf_files, main>>

\* A file of the folder is written, replaced or touched.
WriteFile ==
    \E f \in Filenames, text \in FileTexts, t \in Times :
        /\ folder.exists
        /\ folder' = [folder EXCEPT !.files[f] = [present |-> TRUE, text |-> text, mtime |-> t]]
        /\ out' = Plain("write", <<>>, FALSE, <<>>, FALSE)
        /\ UNCHANGED <<index, chunks_list, faiss_index, pdf_files, main>>

\* load_data updating the index itself with what it found.
LoadDataUpdating ==
    \E order \in Orders(DOMAIN load_from_folder(folder)) :
        LET res == load_data(folder, pdf_files, order)
            st == update_index(Engine(index, chunks_list, faiss_index), res.updated_files, 0)
        IN  /\ pdf_files' = res.rows
            /\ index' = st.index
            /\ chunks_list' = st.chunks_list
            /\ faiss_index' = st.table
            /\ out' = Plain("load_data", <<>>, FALSE, res.updated_files, FALSE)
            /\ UNCHANGED <<folder, main>>

\* engine.load_data(folder)
LoadData ==
    \E order \in Orders(DOMAIN load_from_folder(folder)) :
        LET res == load_data(folder, pdf_files, order)
        IN  /\ pdf_files' = res.rows
            /\ out' = Plain("load_data", <<>>, FALSE, res.updated_files, FALSE)
            /\ UNCHANGED <<index, chunks_list, faiss_index, folder, main>>

\* db_manager.save_pdf_content(filename, content, last_modified)
SavePdfContent ==
    \E f \in Filenames, content \in Contents, t \in Times :
        /\ pdf_files' = save_pdf_content(pdf_files, f, content, t)
        /\ out' = Plain("save_pdf_content", Doc(f, content), FALSE, t, FALSE)
        /\ UNCHANGED <<index, chunks_list, faiss_index, folder, main>>

NextTracking == MakeFolder \/ WriteFile \/ LoadData \/ SavePdfContent

SpecTracking == Init /\ [][NextTracking]_vars

-----------------------------------------------------------------------------
\* The snapshot store called directly.

MaxSaved == 2       \* save_index is called with at most this many vectors or chunks

RECURSIVE SeqsUpTo(_, _)
SeqsUpTo(S, n) ==
    IF n = 0 THEN {<<>>}
    ELSE LET shorter == SeqsUpTo(S, n - 1)
         IN  shorter \cup {Append(q, x) : q \in {r \in shorter : Len(r) = n - 1}, x \in S}

SavedIndexes ==
    {NoIndex} \cup {IndexAdd(IndexFlatIP(Dim), vs) : vs \in SeqsUpTo({<<3, 4>>, <<4, 3>>}, MaxSaved)}

SavedChunkLists == SeqsUpTo({La, Lb}, MaxSaved)

\* db_manager.save_index(index, chunks_list)
SaveIndex ==
    \E ix \in SavedIndexes, chunks \in SavedChunkLists :
        /\ faiss_index' = save_index(faiss_index, ix, chunks)
        /\ out' = Plain("save_index", [index |-> ix, chunks_list |-> chunks], FALSE, <<>>, FALSE)
        /\ UNCHANGED <<index, chunks_list, pdf_files, folder, main>>

\* db_manager.load_index()
LoadIndex ==
    /\ out' = Plain("load_index", <<>>, FALSE, load_index(faiss_index), FALSE)
    /\ UNCHANGED <<index, chunks_list, faiss_index, pdf_files, folder, main>>

NextStore == SaveIndex \/ LoadIndex

SpecStore == Init /\ [][NextStore]_vars

-----------------------------------------------------------------------------
\* Engines built from whatever snapshot the store holds: save_index is called
\* with an index of n vectors and a list of k chunks, n and k independent.

SavedPairs ==
    {[index |-> IndexAdd(IndexFlatIP(Dim), Rep(n, <<3, 4>>)), chunks_list |-> Rep(k, La)] :
        n, k \in 0..MaxSaved}

\* db_manager.save_index(index, chunks_list)
SaveSnapshot ==
    \E p \in SavedPairs :
        /\ faiss_index' = save_index(faiss_index, p.index, p.chunks_list)
        /\ out' = Plain("save_index", p, FALSE, <<>>, FALSE)
        /\ UNCHANGED <<index, chunks_list, pdf_files, folder, main>>

NextRestore == SaveSnapshot \/ NewEngine \/ Search

SpecRestore == Init /\ [][NextRestore]_vars

-----------------------------------------------------------------------------
\* update_index calls that may fail: the embedding provider raises at some
\* document, or the engine was built from a snapshot that an engine with
\* another embedding model (model_name) left in database.db, whose vectors
\* have another dimension.

ForeignPairs ==
    {[index |-> IndexAdd(IndexFlatIP(Dim + 1), Rep(n, <<3, 4, 0>>)), chunks_list |-> Rep(n, Lb)] :
        n \in 1..MaxSaved}

\* An engine with another model saves its snapshot.
SaveForeign ==
    \E p \in ForeignPairs :
        /\ faiss_index' = save_index(faiss_index, p.index, p.chunks_list)
        /\ out' = Plain("save_index", p, FALSE, <<>>, FALSE)
        /\ UNCHANGED <<index, chunks_list, pdf_files, folder, main>>

\* The mappings of these calls: one or two documents.
FailingMappings ==
    {m \in Mappings : \A i \in 1..Len(m) : m[i].text \in {<<La>>, <<Lb, Lab>>}}

\* engine.update_index(pdf_texts), the embedding provider raising at document
\* fail_at of the mapping, if at any.
UpdateIndexFailing ==
    \E pdf_texts \in FailingMappings :
      \E fail_at \in 0..Len(pdf_texts) :
        \E st \in {update_index(Engine(index, chunks_list, faiss_index), pdf_texts, fail_at)} :
            /\ Len(st.chunks_list) <= MaxChunks
            /\ index' = st.index
            /\ chunks_list' = st.chunks_list
            /\ faiss_index' = st.table
            /\ out' = Plain("update_index", pdf_texts, st.raised, <<>>, st.encoded)
            /\ UNCHANGED <<pdf_files, folder, main>>

NextFailure == SaveForeign \/ NewEngine \/ UpdateIndexFailing

SpecFailure == Init /\ [][NextFailure]_vars

-----------------------------------------------------------------------------
\* The engine on a folder, as main uses it: load_data finds the new and the
\* updated files, update_index is called with the mapping it returned, and
\* searches are made in between.

\* engine.update_index(updated_texts), updated_texts being what the load_data
\* call before it returned (main: lines 32-33).
UpdateIndexLoaded ==
    /\ out.op = "load_data"
    /\ \E st \in {update_index(Engine(index, chunks_list, faiss_index), out.ret, 0)} :
            /\ index' = st.index
            /\ chunks_list' = st.chunks_list
            /\ faiss_index' = st.table
            /\ out' = Plain("update_index", out.ret, st.raised, <<>>, st.encoded)
            /\ UNCHANGED <<pdf_files, folder, main>>

\* engine.search(query, top_k=3, min_similarity=0.4), the call that
\* Agent.process_query makes.
AgentSearch ==
    \E query \in Queries :
        /\ IF SearchFailsSoft(index, chunks_list)
           THEN out' = Out("search", query, FALSE, <<>>, NotFound, <<>>,
                           AgentTopK, AgentMinSimilarity, FALSE)
           ELSE \E found \in IndexSearch(index, Normalize(encode(query)), AgentTopK) :
                    \E res \in {SearchResult(chunks_list, found, AgentMinSimilarity)} :
                        out' = Out("search", query, res.raised, res.ret, found, res.kept,
                                   AgentTopK, AgentMinSimilarity, TRUE)
        /\ UNCHANGED <<index, chunks_list, faiss_index, pdf_files, folder, main>>

NextFolder == MakeFolder \/ WriteFile \/ LoadData \/ UpdateIndexLoaded \/ AgentSearch

SpecFolder == Init /\ [][NextFolder]_vars

-----------------------------------------------------------------------------
\* Runs of main().  index and chunks_list are those of main's own engine;
\* main.agent is the engine the Agent built for itself.  The process can be
\* stopped at any point and main run again; files are written between runs.

\* A file of the folder is written while no process runs main.
WriteBetweenRuns == main.pc = "none" /\ WriteFile

\* main, lines 16-25: Agent() builds its engine from the store, then main
\* builds its own engine from the store and creates the folder if missing.
MainStart ==
    /\ main.pc = "none"
    /\ main' = [pc |-> "started", agent |-> load_index(faiss_index),
                pdf_data |-> <<>>, updated |-> FALSE]
    /\ index' = load_index(faiss_index).index
    /\ chunks_list' = load_index(faiss_index).chunks_list
    /\ folder' = [folder EXCEPT !.exists = TRUE]
    /\ out' = Plain("init", <<>>, FALSE, <<>>, FALSE)
    /\ UNCHANGED <<faiss_index, pdf_files>>

\* main, lines 28-32: with a *.pdf file in the folder, pdf_data =
\* engine.load_data(PDF_FOLDER); with none, main goes on to its query loop.
MainLoad ==
    /\ main.pc = "started"
    /\ IF \E f \in Filenames : folder.files[f].present
       THEN \E order \in Orders(DOMAIN load_from_folder(folder)) :
                LET res == load_data(folder, pdf_files, order)
                IN  /\ pdf_files' = res.rows
                    /\ main' = [main EXCEPT !.pc = "loaded", !.pdf_data = res.updated_files]
                    /\ out' = Plain("load_data", <<>>, FALSE, res.updated_files, FALSE)
       ELSE /\ main' = [main EXCEPT !.pc = "query"]
            /\ out' = Plain("no_pdf", <<>>, FALSE, <<>>, FALSE)
            /\ UNCHANGED pdf_files
    /\ UNCHANGED <<index, chunks_list, faiss_index, folder>>

\* main, line 33: engine.update_index(pdf_data); an exception ends the process.
MainUpdate ==
    /\ main.pc = "loaded"
    /\ \E st \in {update_index(Engine(index, chunks_list, faiss_index), main.pdf_data, 0)} :
            /\ index' = st.index
            /\ chunks_list' = st.chunks_list
            /\ faiss_index' = st.table
            /\ main' = [main EXCEPT !.pc = IF st.raised THEN "none" ELSE "query",
                                    !.updated = ~st.raised]
            /\ out' = Plain("update_index", <<>>, st.raised, <<>>, st.encoded)
    /\ UNCHANGED <<pdf_files, folder>>

\* The process is stopped inside update_index, when the loop has handled
\* stop_after documents and the final save has not been made.
MainStopInUpdate ==
    /\ main.pc = "loaded"
    /\ \E stop_after \in 1..Len(main.pdf_data) :
         \E st \in {UpdateLoop(Engine(index, chunks_list, faiss_index),
                                SubSeq(main.pdf_data, 1, stop_after), 0)} :
            /\ index' = st.index
            /\ chunks_list' = st.chunks_list
            /\ faiss_index' = st.table
            /\ main' = [main EXCEPT !.pc = "none"]
            /\ out' = Plain("stopped", <<>>, FALSE, stop_after, st.encoded)
    /\ UNCHANGED <<pdf_files, folder>>

\* The process is stopped between two calls, or main returns.
MainStop ==
    /\ main.pc # "none"
    /\ main' = [main EXCEPT !.pc = "none"]
    /\ out' = Plain("stopped", <<>>, FALSE, 0, FALSE)
    /\ UNCHANGED <<index, chunks_list, faiss_index, pdf_files, folder>>

\* main, line 54: agent.process_query(query_text), which searches the
\* Agent's own engine with top_k=3 and min_similarity=0.4.
MainQuery ==
    /\ main.pc = "query"
    /\ \E query \in Queries :
         IF SearchFailsSoft(main.agent.index, main.agent.chunks_list)
         THEN out' = Out("search", query, FALSE, <<>>, NotFound, <<>>,
                         AgentTopK, AgentMinSimilarity, FALSE)
         ELSE \E found \in IndexSearch(main.agent.index, Normalize(encode(query)), AgentTopK) :
                  \E res \in {SearchResult(main.agent.chunks_list, found, AgentMinSimilarity)} :
                      out' = Out("search", query, res.raised, res.ret, found, res.kept,
                                 AgentTopK, AgentMinSimilarity, TRUE)
    /\ UNCHANGED <<index, chunks_list, faiss_index, pdf_files, folder, main>>

NextMain ==
    \/ MakeFolder \/ WriteBetweenRuns
    \/ MainStart \/ MainLoad \/ MainUpdate \/ MainStop \/ MainStopInUpdate \/ MainQuery

SpecMain == Init /\ [][NextMain]_vars

-----------------------------------------------------------------------------
\* DBManagers built with different db_path values.  A DBManager keeps db_path
\* in a field; each of its methods opens sqlite3.connect("database.db").

DbPaths == {"faiss_db.sqlite", "other.sqlite"}

\* The file the methods of a DBManager built with db_path connect to.
DatabaseFile(db_path) == "database.db"

\* The tables of a database file: faiss_index and pdf_files are those of
\* database.db; no other file is ever written, its tables are empty.
Tables(file) ==
    IF file = "database.db"
    THEN [faiss_index |-> faiss_index, pdf_files |-> pdf_files]
    ELSE [faiss_index |-> <<>>, pdf_files |-> {}]

\* DBManager(db_path).save_index(index, chunks_list)
SaveIndexAt ==
    \E db_path \in DbPaths, p \in SavedPairs :
        /\ DatabaseFile(db_path) = "database.db"
        /\ faiss_index' = save_index(Tables(DatabaseFile(db_path)).faiss_index,
                                     p.index, p.chunks_list)
        /\ out' = Plain("save_index", [db_path |-> db_path, pair |-> p], FALSE, <<>>, FALSE)
        /\ UNCHANGED <<index, chunks_list, pdf_files, folder, main>>

\* DBManager(db_path).load_index()
LoadIndexAt ==
    \E db_path \in DbPaths :
        /\ out' = Plain("load_index", [db_path |-> db_path], FALSE,
                        load_index(Tables(DatabaseFile(db_path)).faiss_index), FALSE)
        /\ UNCHANGED <<index, chunks_list, faiss_index, pdf_files, folder, main>>

\* DBManager(db_path).save_pdf_content(filename, content, last_modified)
SavePdfContentAt ==
    \E db_path \in DbPaths, f \in Filenames, content \in Contents, t \in Times :
        /\ DatabaseFile(db_path) = "database.db"
        /\ pdf_files' = save_pdf_content(Tables(DatabaseFile(db_path)).pdf_files, f, content, t)
        /\ out' = Plain("save_pdf_content", [db_path |-> db_path, doc |-> Doc(f, content)],
                        FALSE, t, FALSE)
        /\ UNCHANGED <<index, chunks_list, faiss_index, folder, main>>

\* DBManager(db_path).get_tracked_pdfs()
GetTrackedPdfsAt ==
    \E db_path \in DbPaths :
        /\ out' = Plain("get_tracked_pdfs", [db_path |-> db_path], FALSE,
                        get_tracked_pdfs(Tables(DatabaseFile(db_path)).pdf_files), FALSE)
        /\ UNCHANGED <<index, chunks_list, faiss_index, pdf_files, folder, main>>

NextPaths == SaveIndexAt \/ LoadIndexAt \/ SavePdfContentAt \/ GetTrackedPdfsAt

SpecPaths == Init /\ [][NextPaths]_vars

-----------------------------------------------------------------------------
\* The chunker called directly, on lines of up to MaxWords words of one or two
\* tokens each, with small windows and strides.

MaxWords == 3       \* a line given to the chunker has at most this many words
MaxWindow == 4      \* window_size is in 1..MaxWindow
MaxStride == 3      \* stride is in 1..MaxStride

ChunkerLines == SeqsUpTo({Wa, Wab}, MaxWords)

\* engine._sliding_window_tokenization(text, window_size, stride)
SlidingWindowTokenization ==
    \E text \in ChunkerLines, window_size \in 1..MaxWindow, stride \in 1..MaxStride :
        /\ out' = Plain("sliding_window_tokenization",
                        [text |-> text, window_size |-> window_size, stride |-> stride],
                        FALSE, sliding_window_tokenization(text, window_size, stride), FALSE)
        /\ UNCHANGED <<index, chunks_list, faiss_index, pdf_files, folder, main>>

NextChunker == SlidingWindowTokenization

SpecChunker == Init /\ [][NextChunker]_vars

-----------------------------------------------------------------------------
\* The claims.

\* C1: whenever the engine holds an index (built by update_index calls that
\* returned normally, from a cold start or after a restore from the store),
\* the chunk list is as long as the index has vectors; without an index the
\* chunk list is empty.
C1_LengthsAgree ==
    /\ index.present => Len(chunks_list) = ntotal(index)
    /\ ~index.present => chunks_list = <<>>

\* C1 witness: update_index, called with one document right after the engine
\* was built from the stored snapshot, has returned normally and left more
\* chunks than one document yields: it appended to the restored index.
C1_Witness ==
    /\ out.op = "update_index" /\ out.prev = "init" /\ ~out.raised
    /\ Len(out.arg) = 1
    /\ index.present /\ Len(chunks_list) >= 3
    /\ ntotal(index) = Len(chunks_list)

\* C2: a step of update_index on an engine that has an index never leaves a
\* text it appended at two positions of the chunk list: every appended
\* position holds a text found at no other position.
C2_AppendedTextsUnique ==
    [][(out'.op = "update_index" /\ index.present)
        => \A j \in (Len(chunks_list) + 1)..Len(chunks_list') :
             \A i \in 1..Len(chunks_list') :
               i # j => chunks_list'[i] # chunks_list'[j]]_vars

\* C3: a call of update_index that repeats the call before it, with the same
\* mapping, changes neither the chunk list, nor the index, nor the snapshot.
C3_Idempotent ==
    [][(out.op = "update_index" /\ out'.op = "update_index" /\ out'.arg = out.arg)
        => /\ chunks_list' = chunks_list
           /\ index' = index
           /\ faiss_index' = faiss_index]_vars

\* C3 witness: update_index was called twice in a row with the same mapping,
\* whose chunks are in the list.
C3_Witness ==
    /\ out.op = "update_index" /\ out.again /\ ~out.raised
    /\ out.arg # <<>> /\ Len(chunks_list) >= 2

\* C4: a load_data call that directly follows a load_data call, the folder
\* being as it was, returns an empty mapping.
C4_SecondLoadEmpty ==
    (out.op = "load_data" /\ out.again) => out.ret = <<>>

\* A file of the folder that yields text.
Readable(f) ==
    folder.exists /\ folder.files[f].present /\ read_text(folder.files[f]) # <<>>

Returned(mapping, f) == \E i \in 1..Len(mapping) : mapping[i].filename = f

\* C5: load_data returns a readable document exactly when its filename has no
\* tracking record or its modification time is strictly greater than the
\* recorded one; it returns no document that is not readable.
C5_ReturnedIffNewOrNewer ==
    [][out'.op = "load_data"
        => \A f \in Filenames :
             Returned(out'.ret, f)
               <=> /\ Readable(f)
                   /\ \/ ~\E r \in pdf_files : r.filename = f
                      \/ \E r \in pdf_files :
                            r.filename = f /\ folder.files[f].mtime > r.last_modified]_vars

\* C5 witness: load_data returned one document and held back a readable one
\* whose modification time equals the recorded one.
C5_Witness ==
    /\ out.op = "load_data" /\ Len(out.ret) = 1
    /\ \E f \in Filenames :
         /\ Readable(f) /\ ~Returned(out.ret, f)
         /\ \E r \in pdf_files : r.filename = f /\ r.last_modified = folder.files[f].mtime

\* C6, on the calls load_data makes: save_pdf_content(filename, content,
\* timestamp) is a no-op only for a filename that has a record with a
\* timestamp not below the new one and with the same content, which is never
\* so for a document load_data returns; so after load_data has returned a
\* document, its record is (filename, content, timestamp of the file).
C6_UpsertExactly ==
    [][out'.op = "load_data"
        => \A i \in 1..Len(out'.ret) :
             LET f == out'.ret[i].filename
                 content == out'.ret[i].text
                 t == folder.files[f].mtime
                 same == \E r \in pdf_files :
                            r.filename = f /\ ~(t > r.last_modified) /\ r.content = content
             IN  /\ ~same
                 /\ [filename |-> f, content |-> content, last_modified |-> t] \in pdf_files'
                 /\ \A r \in pdf_files' : r.filename = f => r.last_modified = t]_vars

\* C7: search keeps result i only if its row id is a position of the chunk
\* list, 0 <= id < len(chunks_list), and its score is at least
\* min_similarity; an id of -1 yields no returned chunk.
C7_KeptOnlyValidRows ==
    out.op = "search"
      => \A j \in 1..Len(out.kept) :
           /\ 0 <= out.ids[out.kept[j]]
           /\ out.ids[out.kept[j]] < Len(chunks_list)
           /\ out.sims[out.kept[j]] >= out.min_similarity

\* C8 as claimed, on the results that are rows of the index: the scores of
\* the returned chunks are strictly descending.
C8_StrictlyDescending ==
    out.op = "search"
      => \A a, b \in 1..Len(out.kept) :
           (a < b /\ out.ids[out.kept[a]] >= 0 /\ out.ids[out.kept[b]] >= 0)
             => out.sims[out.kept[a]] > out.sims[out.kept[b]]

\* C8 amended: the scores of the returned chunks never increase along the
\* result (equal scores occur).
C8_Descending ==
    out.op = "search"
      => \A a, b \in 1..Len(out.kept) :
           a < b => out.sims[out.kept[a]] >= out.sims[out.kept[b]]

\* C8 witness: a search returned three chunks of three rows, two of equal
\* score and one of a lower score.
C8_Witness ==
    /\ out.op = "search" /\ Len(out.ret) = 3
    /\ \A j \in 1..3 : out.ids[out.kept[j]] >= 0
    /\ out.sims[out.kept[1]] = out.sims[out.kept[2]]
    /\ out.sims[out.kept[2]] > out.sims[out.kept[3]]

\* C9: search on an engine without an index, or with an empty chunk list,
\* returns the empty list, does not raise, does not call the embedding
\* provider and changes nothing of the engine or the store.
C9_FailsSoft ==
    [][(out'.op = "search" /\ (~index.present \/ chunks_list = <<>>))
        => /\ out'.ret = <<>>
           /\ ~out'.raised
           /\ ~out'.encoded
           /\ UNCHANGED <<index, chunks_list, faiss_index, pdf_files>>]_vars

\* C9 witness: search was called on an engine that has an index with
\* vectors and an empty chunk list, and returned the empty list.
C9_Witness ==
    /\ out.op = "search" /\ index.present /\ ntotal(index) > 0 /\ chunks_list = <<>>
    /\ out.ret = <<>> /\ ~out.encoded /\ ~out.raised

\* C10: load_index directly after save_index(index, chunks) with an index
\* returns an index with as many vectors and a chunk list equal to chunks.
C10_RoundTrip ==
    [][(out.op = "save_index" /\ out.arg.index.present /\ out'.op = "load_index")
        => /\ out'.ret.index.present
           /\ ntotal(out'.ret.index) = ntotal(out.arg.index)
           /\ out'.ret.chunks_list = out.arg.chunks_list]_vars

\* C10 witness: load_index returned, right after a save_index, an index of
\* two vectors and a list of two different chunks.
C10_Witness ==
    /\ out.op = "load_index" /\ out.prev = "save_index"
    /\ out.ret.index.present /\ ntotal(out.ret.index) = 2
    /\ Len(out.ret.chunks_list) = 2
    /\ out.ret.chunks_list[1] # out.ret.chunks_list[2]

\* C11: the store never holds more than one snapshot; a save_index call with
\* an index leaves exactly the pair it was called with, a save_index call
\* without an index leaves the table as it was, and so does every other call
\* on the store.  So the snapshot is the pair of the latest save_index call
\* made with an index.
C11_LatestWins ==
    [][/\ Len(faiss_index') <= 1
       /\ (out'.op = "save_index" /\ out'.arg.index.present)
            => /\ Len(faiss_index') = 1
               /\ load_index(faiss_index') = out'.arg
       /\ ~(out'.op = "save_index" /\ out'.arg.index.present)
            => faiss_index' = faiss_index]_vars

\* C11 witness: save_index without an index was called right after a
\* save_index, and the store still holds the one snapshot of two chunks
\* written before.
C11_Witness ==
    /\ out.op = "save_index" /\ out.prev = "save_index" /\ ~out.arg.index.present
    /\ out.arg.chunks_list = <<>>
    /\ Len(faiss_index) = 1
    /\ Len(load_index(faiss_index).chunks_list) = 2

\* C12: for a text of n tokens, _sliding_window_tokenization returns one chunk
\* of all n tokens when n < window_size, and otherwise
\* floor((n - window_size) / stride) + 1 chunks, the j-th (from 0) being the
\* string of the window_size tokens tokens[j*stride : j*stride + window_size].
C12_ReferenceChunker ==
    out.op = "sliding_window_tokenization"
      => LET tokens == tokenize(out.arg.text)
             n == Len(tokens)
             w == out.arg.window_size
             s == out.arg.stride
         IN  IF n < w
             THEN out.ret = <<convert_tokens_to_string(tokens)>>
             ELSE /\ Len(out.ret) = (n - w) \div s + 1
                  /\ \A j \in 0..(Len(out.ret) - 1) :
                       /\ j * s + w <= n
                       /\ Len(SubSeq(tokens, j * s + 1, j * s + w)) = w
                       /\ out.ret[j + 1]
                            = convert_tokens_to_string(SubSeq(tokens, j * s + 1, j * s + w))

\* C12 witness: the chunker returned two windows whose last one ends exactly
\* at the last token, the second window starting inside a word.
C12_Witness ==
    /\ out.op = "sliding_window_tokenization"
    /\ Len(out.ret) = 2
    /\ LET tokens == tokenize(out.arg.text)
       IN  /\ Len(tokens) = out.arg.stride + out.arg.window_size
           /\ out.arg.window_size > 1
           /\ tokens[out.arg.stride + 1].cont

\* A vector of L2 norm 1 (Scale, in the model's units).
IsUnit(v) == Dot(v, v) = Scale * Scale

\* C13: every vector stored in the index is unit-normalized, whether the
\* bootstrap path or the incremental path of update_index inserted it.
C13_StoredVectorsUnit ==
    index.present => \A r \in 1..ntotal(index) : IsUnit(index.xb[r])

\* C14: a call of update_index that raises leaves chunks_list and the index
\* exactly as they were before the call, and the chunk list as long as the
\* index has vectors.
C14_FailureLeavesState ==
    [][(out'.op = "update_index" /\ out'.raised)
        => /\ chunks_list' = chunks_list
           /\ index' = index
           /\ index'.present => Len(chunks_list') = ntotal(index')]_vars

\* C15: after update_index was called with a non-empty mapping and returned
\* normally, the store holds a snapshot whose chunk list equals chunks_list
\* and whose index has as many vectors as the engine's index.
C15_SnapshotIsMemory ==
    (out.op = "update_index" /\ out.arg # <<>> /\ ~out.raised)
      => /\ faiss_index # <<>>
         /\ load_index(faiss_index).index.present
         /\ load_index(faiss_index).chunks_list = chunks_list
         /\ ntotal(load_index(faiss_index).index) = ntotal(index)

\* C15 witness: a second update_index call with two documents returned
\* normally and left three chunks, in memory and in the store.
C15_Witness ==
    /\ out.op = "update_index" /\ out.prev = "update_index" /\ ~out.again
    /\ ~out.raised /\ Len(out.arg) = 2
    /\ Len(chunks_list) = 3
    /\ Len(load_index(faiss_index).chunks_list) = 3

\* C16: building an engine while the store holds no snapshot does not raise
\* and leaves the engine without an index and with an empty chunk list.
C16_ColdStart ==
    [][(out'.op = "init" /\ faiss_index = <<>>)
        => /\ ~out'.raised
           /\ index' = NoIndex
           /\ chunks_list' = <<>>
           /\ faiss_index' = <<>>]_vars

\* C16 witness: an engine was built after an update_index call that raised
\* before anything was saved; the store is empty and so is the engine.
C16_Witness ==
    /\ out.op = "init" /\ out.prev = "update_index"
    /\ faiss_index = <<>>
    /\ ~index.present /\ chunks_list = <<>> /\ ~out.raised

\* What a DBManager built with db_path reads: the snapshot load_index returns
\* and the mapping get_tracked_pdfs returns.
Observed(db_path) ==
    [snapshot |-> load_index(Tables(DatabaseFile(db_path)).faiss_index),
     tracked |-> get_tracked_pdfs(Tables(DatabaseFile(db_path)).pdf_files)]

\* C17: a save_index or save_pdf_content made through a DBManager built with
\* one db_path changes nothing of what a DBManager built with another db_path
\* reads by load_index or get_tracked_pdfs.
C17_PathsIndependent ==
    [][out'.op \in {"save_index", "save_pdf_content"}
        => \A q \in DbPaths \ {out'.arg.db_path} : Observed(q)' = Observed(q)]_vars

\* Row r of the index is the embedding of the chunk at position r: the vector
\* the embedding provider returns for that text, as the bootstrap path stores
\* it (normalized) or as the incremental path stores it (as returned).
RowsAligned ==
    index.present
      => /\ ntotal(index) = Len(chunks_list)
         /\ \A r \in 1..ntotal(index) :
              index.xb[r] \in {encode(chunks_list[r]), Normalize(encode(chunks_list[r]))}

\* C18: in every state, each row of the index is the embedding of the chunk
\* at the same position; and update_index and search never change or remove
\* the text at a position of chunks_list (the list only grows at its end).
C18_RowIdAlignment ==
    /\ []RowsAligned
    /\ [][out'.op \in {"update_index", "search"}
            => /\ Len(chunks_list') >= Len(chunks_list)
               /\ \A r \in 1..Len(chunks_list) : chunks_list'[r] = chunks_list[r]]_vars

\* C18 witness: a second update_index call has appended to the index; the
\* list holds at least three chunks and the index rows of different vectors.
C18_Witness ==
    /\ out.op = "update_index" /\ out.prev = "update_index" /\ ~out.raised
    /\ Len(chunks_list) >= 3 /\ ntotal(index) = Len(chunks_list)
    /\ index.xb[1] # index.xb[Len(chunks_list)]
    /\ chunks_list[1] # chunks_list[Len(chunks_list)]

\* C19: update_index called on an engine without an index, with documents
\* that have no non-blank line, returns normally and leaves the engine with
\* an empty chunk list and no vectors.
C19_NoChunksNoRaise ==
    [][(/\ out'.op = "update_index" /\ out'.arg # <<>>
        /\ ~index.present
        /\ \A i \in 1..Len(out'.arg) :
             \A l \in 1..Len(out'.arg[i].text) : IsBlank(out'.arg[i].text[l]))
        => /\ ~out'.raised
           /\ chunks_list' = <<>>
           /\ ntotal(index') = 0]_vars

\* C20: search, load_data and update_index with an empty mapping change
\* neither the index, nor chunks_list, nor the stored snapshot.
C20_OnlyUpdateIndexChanges ==
    [][(\/ out'.op \in {"search", "load_data"}
        \/ (out'.op = "update_index" /\ out'.arg = <<>>))
        => UNCHANGED <<index, chunks_list, faiss_index>>]_vars

\* C20 witness: load_data has returned a document to an engine that already
\* holds an index and chunks, after a search on it.
C20_Witness ==
    /\ out.op = "load_data" /\ out.prev = "search" /\ out.ret # <<>>
    /\ index.present /\ Len(chunks_list) >= 1
    /\ faiss_index # <<>>

\* C21: every snapshot in the store is consistent: its chunk list has as many
\* entries as its index has vectors, whenever the process is stopped.
C21_SnapshotsConsistent ==
    faiss_index # <<>>
      => Len(load_index(faiss_index).chunks_list) = ntotal(load_index(faiss_index).index)

\* The chunks of the file f are all in the stored snapshot.
ChunksPersisted(f) ==
    Range(ChunksOf(read_text(folder.files[f]), WindowSize, Stride))
        \subseteq Range(load_index(faiss_index).chunks_list)

\* C22: no discovered document is lost: a load_data call returns every
\* readable document of the folder whose chunks are not in the stored
\* snapshot, also when its tracking record was already upserted with the
\* content the file has (by a run that was stopped before update_index had
\* persisted the chunks).
C22_NoDocumentLost ==
    [][out'.op = "load_data"
        => \A f \in Filenames :
             (/\ Readable(f)
              /\ \E r \in pdf_files :
                    r.filename = f /\ r.content = read_text(folder.files[f])
              /\ ~ChunksPersisted(f))
               => Returned(out'.ret, f)]_vars

\* The engine e holds what the snapshot s holds: the same chunk list and an
\* index of the same rows.
HoldsSnapshot(e, s) ==
    /\ e.chunks_list = s.chunks_list
    /\ e.index.present = s.index.present
    /\ ntotal(e.index) = ntotal(s.index)
    /\ \A r \in 1..ntotal(e.index) :
         /\ Len(e.index.xb[r]) = Len(s.index.xb[r])
         /\ \A c \in 1..Len(e.index.xb[r]) : e.index.xb[r][c] = s.index.xb[r][c]

\* C23: every query that agent.process_query handles after main's load_data
\* and update_index have completed is answered from an engine whose index
\* and chunks_list are those of the stored snapshot.
C23_QueriesSeeStartupUpdate ==
    [][(out'.op = "search" /\ main.pc = "query" /\ main.updated)
        => HoldsSnapshot(main.agent, load_index(faiss_index))]_vars

====
